---- MODULE Spec2Model ----
(***************************************************************************)
(* Token lifecycle and session consistency of the MERN starter.            *)
(*                                                                         *)
(* Spec       : the browser side.  One tab runs its AuthProvider (user,    *)
(*              token, loading, error) over the localStorage slot "token"  *)
(*              it shares with the other tabs of the origin; every request *)
(*              goes through the interceptors of apiClient.  The server    *)
(*              and the other tabs are the environment: the server may     *)
(*              answer any request with any status, another tab may write  *)
(*              the slot at any time.                                      *)
(* FairSpec   : Spec plus the fairness of the event loop and the network.  *)
(* ServerSpec : the Express handlers of /api/auth applied to requests      *)
(*              drawn from small sets.                                      *)
(* AccountSpec: the account routes (register, login, me, update-password,  *)
(*              update-email) over the users collection, with the token    *)
(*              the requesting tab stores.                                  *)
(***************************************************************************)
EXTENDS Integers, Sequences, FiniteSets, TLC

\* ------------------------------------------------------------------------
\* Bounds of the model
\* ------------------------------------------------------------------------
\* requests of one call that may be stacked on each other (a request, the
\* refresh made for it, the refresh made for that refresh, ...)
MaxDepth == 3
\* session operations of the tab that may be in flight together
MaxCalls == 2
\* documents the users collection may hold, and register requests that may
\* await the collection together
MaxUsers == 2

\* ------------------------------------------------------------------------
\* Values held by the browser
\* ------------------------------------------------------------------------
\* null, for the token in state and for localStorage.getItem("token")
NoToken == "null"
\* encoded access tokens as the client sees them: opaque strings
Tokens == {"jwtA", "jwtB"}

\* user documents as the backend sends them
BackendUsers == {[_id |-> "u1", name |-> "Ann", email |-> "ann@x.com"]}
\* user === null in the AuthProvider
NoUser == [id |-> "null", name |-> "null", email |-> "null"]
transformUser(u) == [id |-> u._id, name |-> u.name, email |-> u.email]

NoError == "null"
genericErrorMessage == "An error occurred. Please try again."

\* the endpoints the session controller calls
MeUrl == "/auth/me"
LoginUrl == "/auth/login"
LogoutUrl == "/auth/logout"
RefreshUrl == "/auth/refresh"

\* ------------------------------------------------------------------------
\* What the server may answer (status 0: no response at all, network error)
\* ------------------------------------------------------------------------
NoBackendUser == [_id |-> "null", name |-> "null", email |-> "null"]

Resp(s, tk, u, m) == [status |-> s, token |-> tk, user |-> u, message |-> m]

ErrorResponses ==
  { Resp(401, NoToken, NoBackendUser, "Unauthorized"),
    Resp(500, NoToken, NoBackendUser, "Server Error"),
    Resp(0, NoToken, NoBackendUser, "") }

SuccessResponses(url) ==
  CASE url = MeUrl      -> { Resp(200, NoToken, u, "") : u \in BackendUsers }
    [] url = LoginUrl   -> { Resp(200, tk, u, "") : tk \in Tokens, u \in BackendUsers }
    [] url = LogoutUrl  -> { Resp(204, NoToken, NoBackendUser, "") }
    [] url = RefreshUrl -> { Resp(200, tk, NoBackendUser, "") : tk \in Tokens }

Responses(url) == SuccessResponses(url) \cup ErrorResponses

IsSuccess(resp) == resp.status >= 200 /\ resp.status < 300

VARIABLES
  lsToken,   \* localStorage["token"], shared by all tabs of the origin
  open,      \* the page of this tab is loaded
  nav,       \* window.location.href was assigned, the page is leaving
  user,      \* state of the AuthProvider of this tab
  token,
  loading,
  error,
  calls,     \* the session operations of this tab awaiting the network,
             \* by slot
  lastAuth   \* the Authorization header of the request that left last

clientVars == <<lsToken, open, nav, user, token, loading, error, calls, lastAuth>>

VARIABLES
  jwtSecret, \* process.env.JWT_SECRET of the server ("" when not set)
  now,       \* the server's clock, in seconds
  cookie,    \* the refreshToken cookie the browser holds for the origin
  srvReq,    \* the request the server handled last
  srvRes     \* and its response

VARIABLES
  users,     \* the users collection of the database
  regs       \* the register requests that await User.create, by connection

serverVars == <<jwtSecret, now, cookie, srvReq, srvRes, users, regs>>

\* ------------------------------------------------------------------------
\* apiClient
\* ------------------------------------------------------------------------
\* One request config: its url and its _retry mark.
Request(url) == [url |-> url, retry |-> FALSE]

\* request interceptor: the Authorization header the request leaves with is
\* the token of localStorage when there is one, otherwise the header the
\* config already carries
requestInterceptor(header, ls) == IF ls # NoToken THEN ls ELSE header

\* A call: the operation that awaits it, the token of the render whose
\* getCurrentUser issued it, the stack of request configs (the last one is on
\* the network, the others wait in the response interceptor for the refresh
\* above them).  Two fields record its history: the number of
\* POST /auth/refresh sent while serving it, and the statuses answered to
\* its requests so far.
Call(op, tk, url) ==
  [op |-> op, forToken |-> tk, reqs |-> <<Request(url)>>,
   refreshes |-> 0, log |-> << >>]

\* a free slot of the tab's table of calls
NoCall == [op |-> "none", forToken |-> NoToken, reqs |-> << >>,
           refreshes |-> 0, log |-> << >>]

Slots == 1..MaxCalls

Top(c) == c.reqs[Len(c.reqs)]

\* the condition without the test of the _retry mark
ShouldRefresh_IgnoringRetry(resp, req) == resp.status = 401

\* the condition of the response interceptor's error branch
ShouldRefresh(resp, req) == resp.status = 401 /\ ~req.retry

\* The response interceptor applied to the answer to the top request of c.
\*   pending  : another request went out (the refresh, or the retry)
\*   resolved : the promise of the original request resolves with resp
\*   rejected : it rejects with resp
\* ls is the new content of the token slot, nav whether the page was sent
\* to /login, auth the Authorization header of the request that went out.
responseInterceptor(c, resp, ls) ==
  LET n == Len(c.reqs)
      top == c.reqs[n]
  IN
  IF IsSuccess(resp) THEN
    IF n = 1 THEN
      [kind |-> "resolved", call |-> c, ls |-> ls, nav |-> FALSE, auth |-> NoToken]
    ELSE
      \* the interceptor of the request below resumes after its await:
      \* store the token, set the header, mark the config, send it again
      LET below == [c.reqs[n - 1] EXCEPT !.retry = TRUE]
      IN [kind |-> "pending",
          call |-> [c EXCEPT !.reqs = Append(SubSeq(c.reqs, 1, n - 2), below),
                             !.log = Append(c.log, resp.status)],
          ls |-> resp.token, nav |-> FALSE,
          auth |-> requestInterceptor(resp.token, resp.token)]
  ELSE IF ShouldRefresh(resp, top) THEN
    [kind |-> "pending",
     call |-> [c EXCEPT !.reqs = Append(c.reqs, Request(RefreshUrl)),
                        !.refreshes = c.refreshes + 1,
                        !.log = Append(c.log, resp.status)],
     ls |-> ls, nav |-> FALSE, auth |-> requestInterceptor(NoToken, ls)]
  ELSE
    IF n = 1 THEN
      [kind |-> "rejected", call |-> c, ls |-> ls, nav |-> FALSE, auth |-> NoToken]
    ELSE
      \* the refresh failed: every interceptor waiting below clears the slot,
      \* sends the page to /login and rejects with the same error
      [kind |-> "rejected", call |-> c, ls |-> NoToken, nav |-> TRUE, auth |-> NoToken]

\* ------------------------------------------------------------------------
\* AuthProvider
\* ------------------------------------------------------------------------
\* error.response?.data?.message || genericErrorMessage
ErrorMessage(resp) ==
  IF resp.status = 0 \/ resp.message = "" THEN genericErrorMessage ELSE resp.message

\* The state the provider holds, with the token slot it writes.
State == [user |-> user, token |-> token, loading |-> loading,
          error |-> error, ls |-> lsToken]

\* getCurrentUser that does not store the user it fetched
getCurrentUserSettled_NoSetUser(s, ok, resp) ==
  IF ok THEN
    [s EXCEPT !.loading = FALSE]
  ELSE
    [s EXCEPT !.token = NoToken, !.user = NoUser,
              !.error = ErrorMessage(resp), !.loading = FALSE]

\* getCurrentUser, after the await
getCurrentUserSettled(s, ok, resp) ==
  IF ok THEN
    [s EXCEPT !.user = transformUser(resp.user), !.loading = FALSE]
  ELSE
    [s EXCEPT !.token = NoToken, !.user = NoUser,
              !.error = ErrorMessage(resp), !.loading = FALSE]

\* login, after the await
loginSettled(s, ok, resp) ==
  IF ok THEN
    [s EXCEPT !.ls = resp.token, !.token = resp.token,
              !.user = transformUser(resp.user), !.loading = FALSE]
  ELSE
    [s EXCEPT !.error = ErrorMessage(resp), !.loading = FALSE]

\* register, after the await
registerSettled(s, ok, resp) ==
  IF ok THEN
    [s EXCEPT !.ls = resp.token, !.token = resp.token,
              !.user = transformUser(resp.user), !.loading = FALSE]
  ELSE
    [s EXCEPT !.error = ErrorMessage(resp), !.loading = FALSE]

\* updateEmail that leaves the token it holds in place
updateEmailSettled_KeepsToken(s, ok, resp) ==
  IF ok THEN
    [s EXCEPT !.user = transformUser(resp.user)]
  ELSE s

\* updateEmail, after the await (a failure is thrown to the component)
updateEmailSettled(s, ok, resp) ==
  IF ok THEN
    [s EXCEPT !.ls = resp.token, !.token = resp.token,
              !.user = transformUser(resp.user)]
  ELSE s

\* logout, after the await
logoutSettled(s, ok, resp) ==
  IF ok THEN
    [s EXCEPT !.ls = NoToken, !.token = NoToken, !.user = NoUser, !.loading = FALSE]
  ELSE
    [s EXCEPT !.ls = NoToken, !.token = NoToken, !.user = NoUser,
              !.error = ErrorMessage(resp), !.loading = FALSE]

Settled(op, s, ok, resp) ==
  CASE op = "getCurrentUser" -> getCurrentUserSettled(s, ok, resp)
    [] op = "login"          -> loginSettled(s, ok, resp)
    [] op = "logout"         -> logoutSettled(s, ok, resp)

\* useEffect(token): runs after the render in which token changed
EffectRuns(oldToken, newToken) == newToken # oldToken /\ newToken # NoToken

\* getCurrentUser, up to the await
getCurrentUserStarted(s) == [s EXCEPT !.loading = TRUE, !.error = NoError]

\* the state after the render that follows s: the effect has run
AfterEffect(oldToken, s) ==
  IF EffectRuns(oldToken, s.token) THEN getCurrentUserStarted(s) ELSE s

\* a route guard that does not wait for loading
ProtectedRoute_IgnoringLoading(ld, tk) ==
  [renders |-> IF tk = NoToken THEN "null" ELSE "children",
   navigates |-> tk = NoToken]

\* ProtectedRoute (components/PageCard.tsx): what the guard renders from the loading
\* and token of the provider, and whether its effect calls
\* navigate("/login")
ProtectedRoute(ld, tk) ==
  [renders |-> IF ld THEN "Loading..."
               ELSE IF tk = NoToken THEN "null"
               ELSE "children",
   navigates |-> ~ld /\ tk = NoToken]

\* the slots in use
Busy(cs) == {i \in Slots : cs[i] # NoCall}

\* the table cs with the call c in its first free slot
AddCall(cs, c) ==
  LET i == CHOOSE i \in Slots \ Busy(cs) : \A j \in Slots \ Busy(cs) : i <= j
  IN [cs EXCEPT ![i] = c]

\* the table after the effect: the call it leaves in flight
WithEffectCall(oldToken, s, cs) ==
  IF EffectRuns(oldToken, s.token)
    THEN AddCall(cs, Call("getCurrentUser", s.token, MeUrl))
    ELSE cs

\* the header of the last request after the effect
EffectAuth(oldToken, s, prev) ==
  IF EffectRuns(oldToken, s.token) THEN requestInterceptor(NoToken, s.ls) ELSE prev

\* write the state s back, with the calls cs
Commit(s, cs) ==
  /\ user' = s.user
  /\ token' = s.token
  /\ loading' = s.loading
  /\ error' = s.error
  /\ lsToken' = s.ls
  /\ calls' = cs

\* ------------------------------------------------------------------------
\* Server: tokens (utils/tokenUtils.ts, jsonwebtoken)
\* ------------------------------------------------------------------------
\* expiresIn: "15m" and "7d", in seconds
AccessTTL == 900
RefreshTTL == 604800

\* the configured secret, and a key that is not the server's
Secret == "test-secret-123"
OtherKey == "attacker-key"

\* a claim that is not in the payload
Absent == "<absent>"
Truthy(x) == x # Absent /\ x # ""

\* A JWT: its payload (userId, email, iat, exp) and the key that signed it.
\* wellFormed is FALSE for a string that is not a JWT at all.
Jwt(userId, email, iat, exp, key) ==
  [userId |-> userId, email |-> email, iat |-> iat, exp |-> exp,
   key |-> key, wellFormed |-> TRUE]
Garbage == [userId |-> Absent, email |-> Absent, iat |-> 0, exp |-> 0,
            key |-> "", wellFormed |-> FALSE]
\* no token: no cookie, no token in a response body
NoJwt == [userId |-> Absent, email |-> Absent, iat |-> 0, exp |-> 0,
          key |-> "", wellFormed |-> FALSE, none |-> TRUE]

\* jwt.sign(payload, secret, { expiresIn })
jwtSign(userId, email, secret, at, expiresIn) ==
  Jwt(userId, email, at, at + expiresIn, secret)

\* the payload of a token that did not verify, req.user when it is not set
NoClaims == [userId |-> Absent, email |-> Absent]

\* jwt.verify(token, secret): the payload, or the error it throws
\* (expired when clockTimestamp >= payload.exp)
jwtVerify(tok, secret, at) ==
  IF ~tok.wellFormed THEN [ok |-> FALSE, name |-> "JsonWebTokenError", payload |-> NoClaims]
  ELSE IF tok.key # secret THEN [ok |-> FALSE, name |-> "JsonWebTokenError", payload |-> NoClaims]
  ELSE IF at >= tok.exp THEN [ok |-> FALSE, name |-> "TokenExpiredError", payload |-> NoClaims]
  ELSE [ok |-> TRUE, name |-> "",
        payload |-> [userId |-> tok.userId, email |-> tok.email]]

\* generateAccessToken: the token, or the configuration error
generateAccessToken(userId, email, secret, at) ==
  IF secret = "" THEN [ok |-> FALSE, token |-> NoJwt]
  ELSE [ok |-> TRUE, token |-> jwtSign(userId, email, secret, at, AccessTTL)]

\* generateTokens with the two lifetimes exchanged
generateTokens_SwappedTTL(userId, email, secret, at) ==
  IF secret = "" THEN [ok |-> FALSE, token |-> NoJwt, refreshToken |-> NoJwt]
  ELSE [ok |-> TRUE,
        token |-> jwtSign(userId, email, secret, at, RefreshTTL),
        refreshToken |-> jwtSign(userId, email, secret, at, AccessTTL)]

\* generateTokens: the pair, or the configuration error
generateTokens(userId, email, secret, at) ==
  IF secret = "" THEN [ok |-> FALSE, token |-> NoJwt, refreshToken |-> NoJwt]
  ELSE [ok |-> TRUE,
        token |-> jwtSign(userId, email, secret, at, AccessTTL),
        refreshToken |-> jwtSign(userId, email, secret, at, RefreshTTL)]

\* ------------------------------------------------------------------------
\* Server: requests and responses
\* ------------------------------------------------------------------------
\* the instants the clock passes through
Instants == <<0, 899, 900, 604799, 604800>>

\* identities a token may name
Claims == {[userId |-> "u1", email |-> "ann@x.com"]}

\* the tokens a request may carry: minted by this server at time 0 as access
\* or as refresh token, signed with another key, signed without the email
\* claim, or not a JWT at all
CandidateTokens ==
  UNION { { jwtSign(c.userId, c.email, Secret, 0, AccessTTL),
            jwtSign(c.userId, c.email, Secret, 0, RefreshTTL),
            jwtSign(c.userId, c.email, OtherKey, 0, RefreshTTL),
            jwtSign(c.userId, Absent, Secret, 0, RefreshTTL) } : c \in Claims }
  \cup {Garbage}

\* Authorization headers: none, "Bearer <token>", another scheme
NoHeader == [scheme |-> "", token |-> NoJwt]
Bearer(tok) == [scheme |-> "Bearer", token |-> tok]
AuthHeaders ==
  {NoHeader} \cup {Bearer(tok) : tok \in CandidateTokens \cup {NoJwt}}
             \cup {[scheme |-> "Basic", token |-> Garbage]}

\* res.status(..).json(..) with what the response does to the cookie:
\* "keep", "clear" or "set" (to setCookie)
\* The body is { message }, { token, user, message } ... ("json"), the
\* { statusCode, message } of the error middleware ("error") or the
\* { errors } of handleValidationErrors ("errors"); user is the user
\* document of the body.
Response(status, message, tok, cookieOp, newCookie) ==
  [status |-> status, message |-> message, token |-> tok,
   cookieOp |-> cookieOp, setCookie |-> newCookie,
   shape |-> "json", user |-> NoBackendUser]

\* req.body when the route reads none
NoBody == [none |-> TRUE]

NoRequest == [route |-> "", cookie |-> NoJwt, auth |-> NoHeader, at |-> 0,
              next |-> FALSE, sent |-> 0, user |-> NoClaims, body |-> NoBody]
NoResponse == Response(0, "", NoJwt, "keep", NoJwt)

\* controllers/authController.ts refreshToken
refreshToken(reqCookie, secret, at) ==
  IF reqCookie = NoJwt THEN
    Response(401, "Unauthorized", NoJwt, "keep", NoJwt)
  ELSE IF secret = "" THEN
    \* the configuration error is thrown inside the try and caught there
    Response(401, "Invalid refresh token", NoJwt, "keep", NoJwt)
  ELSE IF ~jwtVerify(reqCookie, secret, at).ok THEN
    Response(401, "Invalid refresh token", NoJwt, "keep", NoJwt)
  ELSE IF ~Truthy(reqCookie.userId) \/ ~Truthy(reqCookie.email) THEN
    Response(401, "Invalid token payload", NoJwt, "keep", NoJwt)
  ELSE
    Response(200, "", generateAccessToken(reqCookie.userId, reqCookie.email,
                                          secret, at).token, "keep", NoJwt)

\* The guard ends in one of two ways: it sent the response res (sent = 1),
\* or it set req.user and called next() (sent = 0).
Rejected(res) == [next |-> FALSE, sent |-> 1, user |-> NoClaims, res |-> res]

\* verifyJWT that does not look at the claims of the payload
verifyJWT_NoClaimCheck(header, secret, at) ==
  IF header.scheme # "Bearer" THEN
    Rejected(Response(401, "Missing or invalid auth header", NoJwt, "keep", NoJwt))
  ELSE IF header.token = NoJwt THEN
    Rejected(Response(401, "Missing token", NoJwt, "keep", NoJwt))
  ELSE IF secret = "" THEN
    Rejected(Response(500, "Server error", NoJwt, "keep", NoJwt))
  ELSE IF ~jwtVerify(header.token, secret, at).ok THEN
    Rejected(Response(401, "Invalid or expired token", NoJwt, "keep", NoJwt))
  ELSE
    [next |-> TRUE, sent |-> 0,
     user |-> jwtVerify(header.token, secret, at).payload, res |-> NoResponse]

\* middleware/authMiddleware.ts verifyJWT
verifyJWT(header, secret, at) ==
  IF header.scheme # "Bearer" THEN
    Rejected(Response(401, "Missing or invalid auth header", NoJwt, "keep", NoJwt))
  ELSE IF header.token = NoJwt THEN
    Rejected(Response(401, "Missing token", NoJwt, "keep", NoJwt))
  ELSE IF secret = "" THEN
    Rejected(Response(500, "Server error", NoJwt, "keep", NoJwt))
  ELSE IF ~jwtVerify(header.token, secret, at).ok THEN
    Rejected(Response(401, "Invalid or expired token", NoJwt, "keep", NoJwt))
  ELSE IF header.token.userId = Absent \/ header.token.email = Absent THEN
    Rejected(Response(401, "Invalid token payload", NoJwt, "keep", NoJwt))
  ELSE
    [next |-> TRUE, sent |-> 0,
     user |-> jwtVerify(header.token, secret, at).payload, res |-> NoResponse]

\* controllers/authController.ts logout
logout == Response(204, "", NoJwt, "clear", NoJwt)

\* routes/authRoutes.ts: router.post("/logout", verifyJWT, authController.logout)
logoutRoute(header, secret, at) ==
  LET guard == verifyJWT(header, secret, at)
  IN IF guard.next THEN logout ELSE guard.res

\* the cookie the browser holds after the response
CookieAfter(old, res) ==
  CASE res.cookieOp = "keep"  -> old
    [] res.cookieOp = "clear" -> NoJwt
    [] res.cookieOp = "set"   -> res.setCookie

\* ------------------------------------------------------------------------
\* Actions of the server
\* ------------------------------------------------------------------------
ServerIdle ==
  /\ jwtSecret = Secret
  /\ now = 0
  /\ cookie = NoJwt
  /\ srvReq = NoRequest
  /\ srvRes = NoResponse
  /\ users = {}
  /\ regs = [k \in 1..MaxUsers |-> [body |-> NoBody, seen |-> FALSE, client |-> FALSE]]

ClientIdle ==
  /\ lsToken = NoToken
  /\ open = FALSE
  /\ nav = FALSE
  /\ user = NoUser
  /\ token = NoToken
  /\ loading = FALSE
  /\ error = NoError
  /\ calls = [i \in Slots |-> NoCall]
  /\ lastAuth = NoToken

\* the server starts with or without its secret; the browser holds any cookie
ServerInit ==
  /\ jwtSecret \in {Secret, ""}
  /\ now = 0
  /\ cookie \in CandidateTokens \cup {NoJwt}
  /\ srvReq = NoRequest
  /\ srvRes = NoResponse
  /\ users = {}
  /\ regs = [k \in 1..MaxUsers |-> [body |-> NoBody, seen |-> FALSE, client |-> FALSE]]
  /\ ClientIdle

\* time passes
Tick ==
  /\ \E k \in 1..(Len(Instants) - 1) : now = Instants[k] /\ now' = Instants[k + 1]
  /\ UNCHANGED <<jwtSecret, cookie, srvReq, srvRes, users, regs>>
  /\ UNCHANGED clientVars

\* the server answers the request of route r, sent with the browser's cookie
\* and the Authorization header h
Handle(r, h, res) ==
  LET g == IF r = "logout" THEN verifyJWT(h, jwtSecret, now)
           ELSE [next |-> TRUE, sent |-> 0, user |-> NoClaims, res |-> NoResponse]
  IN /\ srvReq' = [route |-> r, cookie |-> cookie, auth |-> h, at |-> now,
                   next |-> g.next, sent |-> g.sent, user |-> g.user,
                   body |-> NoBody]
     /\ srvRes' = res
     /\ cookie' = CookieAfter(cookie, res)
     /\ UNCHANGED <<jwtSecret, now, users, regs>>
     /\ UNCHANGED clientVars

\* POST /api/auth/refresh
PostRefresh == Handle("refresh", NoHeader, refreshToken(cookie, jwtSecret, now))

\* POST /api/auth/logout
PostLogout(h) == Handle("logout", h, logoutRoute(h, jwtSecret, now))

ServerNext ==
  \/ Tick
  \/ PostRefresh
  \/ \E h \in AuthHeaders : PostLogout(h)

\* ------------------------------------------------------------------------
\* Server: the users collection (models/User.ts)
\* ------------------------------------------------------------------------
\* the addresses requests name: one mailbox in two spellings
Emails == {"ann@x.com", "ANN@X.COM"}
\* String.prototype.toLowerCase
toLowerCase(e) == IF e = "ANN@X.COM" THEN "ann@x.com" ELSE e
\* a string that is not an address
NotAnEmail == "not-an-email"

\* passwords that pass the strength rules, and one that does not
StrongPasswords == {"Str0ng!pass", "N3w!passw0rd"}
WeakPassword == "weak"

\* express-validator: isEmail(), the password chain
isEmail(e) == e \in Emails
isStrongPassword(p) == p \in StrongPasswords

\* bcrypt.hash(password, 10) and bcrypt.compare(candidate, hash)
bcryptHash(p) == "$2b$10$" \o p
comparePassword(candidate, hashed) == hashed = bcryptHash(candidate)

\* the _id of the n-th document
UserId(n) == "u" \o ToString(n)

\* a user object that carries the stored password as well
formatUserWithoutPassword_WithPassword(u) ==
  [_id |-> u._id, name |-> u.name, email |-> u.email,
   isVerified |-> u.isVerified, createdAt |-> u.createdAt,
   updatedAt |-> u.updatedAt, password |-> u.password]

\* the user object of a response body: the document without its password
formatUserWithoutPassword(u) ==
  [_id |-> u._id, name |-> u.name, email |-> u.email,
   isVerified |-> u.isVerified, createdAt |-> u.createdAt,
   updatedAt |-> u.updatedAt]

\* .select("-password"): the document as stored (with the version key of
\* Mongoose), without its password
selectWithoutPassword(u) ==
  [_id |-> u._id, name |-> u.name, email |-> u.email,
   isVerified |-> u.isVerified, createdAt |-> u.createdAt,
   updatedAt |-> u.updatedAt, __v |-> u.__v]

\* User.findOne({ email }), User.findById(id): the documents that match
findOne(us, email) == {u \in us : u.email = email}
findById(us, id) == {u \in us : u._id = id}

\* what a handler throws
DuplicateKey == [code |-> 11000, name |-> "MongoServerError",
                 message |-> "E11000 duplicate key error"]
ConfigError == [code |-> 0, name |-> "Error",
                message |-> "Server configuration error: missing JWT_SECRET"]

\* a pre-save hook that hashes the password on every save
preSave_AlwaysHashes(doc, isModifiedPassword) ==
  [doc EXCEPT !.password = bcryptHash(doc.password)]

\* UserSchema.pre("save"): the password is hashed when it was modified
preSave(doc, isModifiedPassword) ==
  IF ~isModifiedPassword THEN doc
  ELSE [doc EXCEPT !.password = bcryptHash(doc.password)]

\* User.create(doc) at the instant at: the defaults and timestamps of the
\* schema are set, the pre-save hook hashes the password, the unique index
\* on email accepts or refuses the insert atomically
UserCreate(us, doc, at) ==
  IF findOne(us, doc.email) # {} THEN
    [ok |-> FALSE, user |-> doc, users |-> us]
  ELSE
    LET u == preSave([_id |-> UserId(Cardinality(us) + 1), name |-> doc.name,
                      email |-> doc.email, password |-> doc.password,
                      isVerified |-> TRUE, createdAt |-> at,
                      updatedAt |-> at, __v |-> 0], TRUE)
    IN [ok |-> TRUE, user |-> u, users |-> us \cup {u}]

\* user.save() at the instant at of the document old changed to u, under
\* the same hook and index
UserSave(us, old, u, at) ==
  LET saved == preSave([u EXCEPT !.updatedAt = at], u.password # old.password)
  IN IF \E v \in us : v._id # u._id /\ v.email = u.email THEN
       [ok |-> FALSE, user |-> old, users |-> us]
     ELSE
       [ok |-> TRUE, user |-> saved, users |-> (us \ {old}) \cup {saved}]

\* ------------------------------------------------------------------------
\* Server: middleware and controllers of the account routes
\* ------------------------------------------------------------------------
\* the body { statusCode, message } of the error middleware
ErrorBody(status, message) ==
  [Response(status, message, NoJwt, "keep", NoJwt) EXCEPT !.shape = "error"]

\* an error middleware without the branch for the duplicate key
errorMiddleware_NoDuplicateBranch(err) ==
  IF err.name = "ValidationError" THEN ErrorBody(400, err.message)
  ELSE IF err.name = "JsonWebTokenError" THEN ErrorBody(401, "Invalid token")
  ELSE ErrorBody(500, err.message)

\* middleware/errorMiddleware.ts
errorMiddleware(err) ==
  IF err.code = 11000 THEN ErrorBody(409, "Email already exists")
  ELSE IF err.name = "ValidationError" THEN ErrorBody(400, err.message)
  ELSE IF err.name = "JsonWebTokenError" THEN ErrorBody(401, "Invalid token")
  ELSE ErrorBody(500, err.message)

\* handleValidationErrors: 400 with { errors }
ValidationFailed ==
  [Response(400, "", NoJwt, "keep", NoJwt) EXCEPT !.shape = "errors"]

\* the guard of a route that has none
Unguarded == [next |-> TRUE, sent |-> 0, user |-> NoClaims, res |-> NoResponse]

\* the answer and the collection a handler leaves
Out(res, us) == [res |-> res, users |-> us]

\* req.body[f]: a field the body does not carry is undefined (falsy, as "")
Field(body, f) == IF f \in DOMAIN body THEN body[f] ELSE ""

\* const { name, email, password1, password2 } = req.body
registerFields(body) ==
  [name |-> Field(body, "name"), email |-> Field(body, "email"),
   password1 |-> Field(body, "password1"), password2 |-> Field(body, "password2")]

\* validateRegister
validateRegister(b) ==
  /\ Len(b.name) >= 2
  /\ isEmail(b.email)
  /\ isStrongPassword(b.password1)
  /\ b.password2 = b.password1

\* registerUser, up to the await of User.create: the response it sends, or
\* NoResponse when it goes on
registerUserChecks(b) ==
  IF b.name = "" \/ b.email = "" \/ b.password1 = "" \/ b.password2 = "" THEN
    Response(400, "All fields are required", NoJwt, "keep", NoJwt)
  ELSE IF b.password1 # b.password2 THEN
    Response(400, "Passwords do not match", NoJwt, "keep", NoJwt)
  ELSE NoResponse

\* POST /register, up to the await
registerStarted(b) ==
  IF ~validateRegister(b) THEN ValidationFailed ELSE registerUserChecks(b)

\* registerUser, from User.create on (what the async handler throws reaches
\* the error middleware, as the comment in the handler says)
registerUserCreated(b, us, secret, at) ==
  LET c == UserCreate(us, [name |-> b.name, email |-> b.email, password |-> b.password1], at)
      t == generateTokens(c.user._id, c.user.email, secret, at)
  IN IF ~c.ok THEN Out(errorMiddleware(DuplicateKey), us)
     ELSE IF ~t.ok THEN Out(errorMiddleware(ConfigError), c.users)
     ELSE Out([Response(201, "", t.token, "set", t.refreshToken)
                 EXCEPT !.user = formatUserWithoutPassword(c.user)], c.users)

\* validateLogin
validateLogin(b) == isEmail(b.email) /\ b.password # ""

\* loginUser that answers differently when the address is not registered
loginUser_TellsUnknownEmail(b, us, secret, at) ==
  LET found == findOne(us, b.email)
      u == CHOOSE u \in found : TRUE
      t == generateTokens(u._id, u.email, secret, at)
  IN IF b.email = "" \/ b.password = "" THEN
       Out(Response(400, "Email and password are required", NoJwt, "keep", NoJwt), us)
     ELSE IF found = {} THEN
       Out(Response(404, "User not found", NoJwt, "keep", NoJwt), us)
     ELSE IF ~comparePassword(b.password, u.password) THEN
       Out(Response(401, "Invalid email or password", NoJwt, "keep", NoJwt), us)
     ELSE IF ~t.ok THEN Out(errorMiddleware(ConfigError), us)
     ELSE Out([Response(200, "", t.token, "set", t.refreshToken)
                 EXCEPT !.user = formatUserWithoutPassword(u)], us)

\* loginUser
loginUser(b, us, secret, at) ==
  LET found == findOne(us, b.email)
      u == CHOOSE u \in found : TRUE
      t == generateTokens(u._id, u.email, secret, at)
  IN IF b.email = "" \/ b.password = "" THEN
       Out(Response(400, "Email and password are required", NoJwt, "keep", NoJwt), us)
     ELSE IF found = {} THEN
       Out(Response(401, "Invalid email or password", NoJwt, "keep", NoJwt), us)
     ELSE IF ~comparePassword(b.password, u.password) THEN
       Out(Response(401, "Invalid email or password", NoJwt, "keep", NoJwt), us)
     ELSE IF ~t.ok THEN Out(errorMiddleware(ConfigError), us)
     ELSE Out([Response(200, "", t.token, "set", t.refreshToken)
                 EXCEPT !.user = formatUserWithoutPassword(u)], us)

\* POST /login
loginRoute(b, us, secret, at) ==
  IF ~validateLogin(b) THEN Out(ValidationFailed, us)
  ELSE loginUser(b, us, secret, at)

\* getCurrentUser that answers from the claims of the token
getCurrentUser_FromClaims(reqUser, us) ==
  LET found == findById(us, reqUser.userId)
      u == CHOOSE u \in found : TRUE
  IN IF reqUser = NoClaims THEN
       Out(Response(401, "Unauthorized", NoJwt, "keep", NoJwt), us)
     ELSE IF found = {} THEN
       Out(Response(404, "User not found", NoJwt, "keep", NoJwt), us)
     ELSE Out([Response(200, "", NoJwt, "keep", NoJwt)
                 EXCEPT !.user = [selectWithoutPassword(u)
                                    EXCEPT !.email = reqUser.email]], us)

\* getCurrentUser
getCurrentUser(reqUser, us) ==
  LET found == findById(us, reqUser.userId)
      u == CHOOSE u \in found : TRUE
  IN IF reqUser = NoClaims THEN
       Out(Response(401, "Unauthorized", NoJwt, "keep", NoJwt), us)
     ELSE IF found = {} THEN
       Out(Response(404, "User not found", NoJwt, "keep", NoJwt), us)
     ELSE Out([Response(200, "", NoJwt, "keep", NoJwt)
                 EXCEPT !.user = selectWithoutPassword(u)], us)

\* GET /me
getCurrentUserRoute(h, us, secret, at) ==
  LET guard == verifyJWT(h, secret, at)
  IN IF ~guard.next THEN Out(guard.res, us) ELSE getCurrentUser(guard.user, us)

\* validateUpdatePassword
validateUpdatePassword(b) ==
  b.currentPassword # "" /\ isStrongPassword(b.newPassword)

\* updatePassword that saves the new password before it checks the current
updatePassword_SaveFirst(reqUser, b, us, at) ==
  LET found == findById(us, reqUser.userId)
      u == CHOOSE u \in found : TRUE
      \* user.updatePassword(newPassword): this.password = newPassword; save()
      saved == UserSave(us, u, [u EXCEPT !.password = b.newPassword], at).users
  IN IF reqUser = NoClaims THEN
       Out(Response(401, "Unauthorized", NoJwt, "keep", NoJwt), us)
     ELSE IF b.currentPassword = "" \/ b.newPassword = "" THEN
       Out(Response(400, "Current password and new password are required",
                    NoJwt, "keep", NoJwt), us)
     ELSE IF found = {} THEN
       Out(Response(404, "User not found", NoJwt, "keep", NoJwt), us)
     ELSE IF ~comparePassword(b.currentPassword, u.password) THEN
       Out(Response(401, "Current password is incorrect", NoJwt, "keep", NoJwt), saved)
     ELSE
       Out(Response(200, "Password updated successfully", NoJwt, "keep", NoJwt), saved)

\* updatePassword
updatePassword(reqUser, b, us, at) ==
  LET found == findById(us, reqUser.userId)
      u == CHOOSE u \in found : TRUE
      \* user.updatePassword(newPassword): this.password = newPassword; save()
      saved == UserSave(us, u, [u EXCEPT !.password = b.newPassword], at).users
  IN IF reqUser = NoClaims THEN
       Out(Response(401, "Unauthorized", NoJwt, "keep", NoJwt), us)
     ELSE IF b.currentPassword = "" \/ b.newPassword = "" THEN
       Out(Response(400, "Current password and new password are required",
                    NoJwt, "keep", NoJwt), us)
     ELSE IF found = {} THEN
       Out(Response(404, "User not found", NoJwt, "keep", NoJwt), us)
     ELSE IF ~comparePassword(b.currentPassword, u.password) THEN
       Out(Response(401, "Current password is incorrect", NoJwt, "keep", NoJwt), us)
     ELSE
       Out(Response(200, "Password updated successfully", NoJwt, "keep", NoJwt), saved)

\* PATCH /update-password
updatePasswordRoute(h, b, us, secret, at) ==
  LET guard == verifyJWT(h, secret, at)
  IN IF ~guard.next THEN Out(guard.res, us)
     ELSE IF ~validateUpdatePassword(b) THEN Out(ValidationFailed, us)
     ELSE updatePassword(guard.user, b, us, at)

\* validateUpdateEmail
validateUpdateEmail(b) == isEmail(b.newEmail)

\* updateEmail without the check that the address changes
updateEmail_AllowsSameEmail(reqUser, b, us, secret, at) ==
  LET found == findById(us, reqUser.userId)
      u == CHOOSE u \in found : TRUE
      s == UserSave(us, u, [u EXCEPT !.email = b.newEmail], at)
      changed == s.user
      t == generateTokens(changed._id, changed.email, secret, at)
  IN IF reqUser = NoClaims THEN
       Out(Response(401, "Unauthorized", NoJwt, "keep", NoJwt), us)
     ELSE IF b.newEmail = "" THEN
       Out(Response(400, "New email is required", NoJwt, "keep", NoJwt), us)
     ELSE IF b.password = "" THEN
       Out(Response(400, "Password is required", NoJwt, "keep", NoJwt), us)
     ELSE IF found = {} THEN
       Out(Response(404, "User not found", NoJwt, "keep", NoJwt), us)
     ELSE IF ~comparePassword(b.password, u.password) THEN
       Out(Response(401, "Password is incorrect", NoJwt, "keep", NoJwt), us)
     ELSE IF ~s.ok THEN Out(errorMiddleware(DuplicateKey), us)
     ELSE IF ~t.ok THEN Out(errorMiddleware(ConfigError), s.users)
     ELSE Out([Response(200, "Email updated successfully", t.token, "set", t.refreshToken)
                 EXCEPT !.user = [_id |-> changed._id, name |-> changed.name,
                                  email |-> changed.email,
                                  isVerified |-> changed.isVerified,
                                  createdAt |-> changed.createdAt,
                                  updatedAt |-> changed.updatedAt]], s.users)

\* updateEmail
updateEmail(reqUser, b, us, secret, at) ==
  LET found == findById(us, reqUser.userId)
      u == CHOOSE u \in found : TRUE
      s == UserSave(us, u, [u EXCEPT !.email = b.newEmail], at)
      changed == s.user
      t == generateTokens(changed._id, changed.email, secret, at)
  IN IF reqUser = NoClaims THEN
       Out(Response(401, "Unauthorized", NoJwt, "keep", NoJwt), us)
     ELSE IF b.newEmail = "" THEN
       Out(Response(400, "New email is required", NoJwt, "keep", NoJwt), us)
     ELSE IF b.password = "" THEN
       Out(Response(400, "Password is required", NoJwt, "keep", NoJwt), us)
     ELSE IF found = {} THEN
       Out(Response(404, "User not found", NoJwt, "keep", NoJwt), us)
     ELSE IF ~comparePassword(b.password, u.password) THEN
       Out(Response(401, "Password is incorrect", NoJwt, "keep", NoJwt), us)
     ELSE IF u.email = b.newEmail THEN
       Out(Response(400, "New email must be different from current email",
                    NoJwt, "keep", NoJwt), us)
     ELSE IF ~s.ok THEN Out(errorMiddleware(DuplicateKey), us)
     ELSE IF ~t.ok THEN Out(errorMiddleware(ConfigError), s.users)
     ELSE Out([Response(200, "Email updated successfully", t.token, "set", t.refreshToken)
                 EXCEPT !.user = [_id |-> changed._id, name |-> changed.name,
                                  email |-> changed.email,
                                  isVerified |-> changed.isVerified,
                                  createdAt |-> changed.createdAt,
                                  updatedAt |-> changed.updatedAt]], s.users)

\* PATCH /update-email
updateEmailRoute(h, b, us, secret, at) ==
  LET guard == verifyJWT(h, secret, at)
  IN IF ~guard.next THEN Out(guard.res, us)
     ELSE IF ~validateUpdateEmail(b) THEN Out(ValidationFailed, us)
     ELSE updateEmail(guard.user, b, us, secret, at)

\* ------------------------------------------------------------------------
\* The account routes served to the browser
\* ------------------------------------------------------------------------
\* the compact serialisation of a token, the string the browser stores
Encode(tok) == ToString(tok)

\* the access tokens the server may have signed
SignedAccessTokens ==
  {jwtSign(UserId(n), e, Secret, 0, AccessTTL) : n \in 1..MaxUsers, e \in Emails}

\* the token a stored string stands for
Decode(str) ==
  IF \E t \in SignedAccessTokens : Encode(t) = str
    THEN CHOOSE t \in SignedAccessTokens : Encode(t) = str
    ELSE Garbage

\* the response as axios hands it to the caller
AsAxios(res) ==
  Resp(res.status, IF res.token = NoJwt THEN NoToken ELSE Encode(res.token),
       res.user, res.message)

\* the Authorization header the request interceptor gives a request of the tab
ClientHeader(ls) ==
  LET header == requestInterceptor(NoToken, ls)
  IN IF header = NoToken THEN NoHeader ELSE Bearer(Decode(header))

\* request bodies
RegisterBodies ==
  [name : {"Ann"}, email : Emails, password1 : {"Str0ng!pass"},
   password2 : {"Str0ng!pass", WeakPassword}]
LoginBodies == [email : Emails \cup {NotAnEmail}, password : StrongPasswords \cup {""}]
UpdatePasswordBodies ==
  [currentPassword : StrongPasswords, newPassword : StrongPasswords \cup {WeakPassword}]
UpdateEmailBodies == [newEmail : Emails, password : StrongPasswords \cup {""}]

\* Authorization headers GET /me is tried with
MeHeaders == {NoHeader} \cup {Bearer(t) : t \in SignedAccessTokens}

\* no register request on the connection
NoReg == [body |-> NoBody, seen |-> FALSE, client |-> FALSE]
RegSlots == 1..MaxUsers
Pending(rs) == {k \in RegSlots : rs[k] # NoReg}

AccountInit ==
  /\ jwtSecret \in {Secret, ""}
  /\ now = 0
  /\ cookie = NoJwt
  /\ srvReq = NoRequest
  /\ srvRes = NoResponse
  /\ users = {}
  /\ regs = [k \in RegSlots |-> NoReg]
  /\ lsToken = NoToken
  /\ open = TRUE
  /\ nav = FALSE
  /\ user = NoUser
  /\ token = NoToken
  /\ loading = FALSE
  /\ error = NoError
  /\ calls = [i \in Slots |-> NoCall]
  /\ lastAuth = NoToken

\* the server answers the request of route r with header h and body b, for
\* which the guard ended as g (the body of a register request is kept with
\* its seen mark)
Serve(r, h, b, g, res) ==
  /\ srvReq' = [route |-> r, cookie |-> cookie, auth |-> h, at |-> now,
                next |-> g.next, sent |-> g.sent, user |-> g.user, body |-> b]
  /\ srvRes' = res
  /\ UNCHANGED <<jwtSecret, now>>

\* POST /api/auth/register of some browser arrives: it is refused at once,
\* or the handler awaits User.create.  seen: the address was registered
\* when the request arrived.
RegisterStart(k, b) ==
  /\ k \in RegSlots \ Pending(regs)
  /\ \A j \in RegSlots \ Pending(regs) : k <= j
  /\ Cardinality(users) + Cardinality(Pending(regs)) < MaxUsers
  /\ LET r == [body |-> b, seen |-> findOne(users, b.email) # {}, client |-> FALSE]
     IN IF registerStarted(b) # NoResponse THEN
          /\ Serve("register", NoHeader, r, Unguarded, registerStarted(b))
          /\ UNCHANGED regs
        ELSE
          /\ regs' = [regs EXCEPT ![k] = r]
          /\ UNCHANGED <<jwtSecret, now, srvReq, srvRes>>
  /\ UNCHANGED <<cookie, users>>
  /\ UNCHANGED clientVars

\* User.create of the request on connection k completes and the handler
\* runs to its end
RegisterCommit(k) ==
  /\ k \in Pending(regs)
  /\ LET out == registerUserCreated(regs[k].body, users, jwtSecret, now)
         s == IF regs[k].client
                THEN registerSettled(State, IsSuccess(out.res), AsAxios(out.res))
                ELSE State
     IN /\ Serve("register", NoHeader, regs[k], Unguarded, out.res)
        /\ users' = out.users
        /\ cookie' = IF regs[k].client THEN CookieAfter(cookie, out.res) ELSE cookie
        /\ Commit(s, calls)
  /\ regs' = [regs EXCEPT ![k] = NoReg]
  /\ UNCHANGED <<open, nav, lastAuth>>

\* the forms of the Register page
RegisterForms ==
  [name : {"Ann"}, email : Emails, password : {"Str0ng!pass"},
   confirmPassword : {"Str0ng!pass", WeakPassword}]

\* the body of the POST /auth/register of the provider's register
registerBody(name, email, password) ==
  [name |-> name, email |-> email, password |-> password]

\* The tab submits the form f of the Register page (shown when not loading
\* and no token is held): handleRegister returns when the two passwords
\* differ, otherwise register of the provider posts its body; the request
\* is refused at once and register runs to its end, or the handler awaits
\* User.create on connection k.
ClientRegister(k, f) ==
  /\ ~loading /\ token = NoToken
  /\ f.password = f.confirmPassword
  /\ k \in RegSlots \ Pending(regs)
  /\ \A j \in RegSlots \ Pending(regs) : k <= j
  /\ Cardinality(users) + Cardinality(Pending(regs)) < MaxUsers
  /\ LET b == registerFields(registerBody(f.name, f.email, f.password))
         r == [body |-> b, seen |-> findOne(users, b.email) # {}, client |-> TRUE]
         started == [State EXCEPT !.loading = TRUE, !.error = NoError]
     IN IF registerStarted(b) # NoResponse THEN
          /\ Serve("register", ClientHeader(lsToken), r, Unguarded, registerStarted(b))
          /\ Commit(registerSettled(started, FALSE, AsAxios(registerStarted(b))), calls)
          /\ UNCHANGED regs
        ELSE
          /\ regs' = [regs EXCEPT ![k] = r]
          /\ Commit(started, calls)
          /\ UNCHANGED <<jwtSecret, now, srvReq, srvRes>>
  /\ UNCHANGED <<cookie, users, open, nav, lastAuth>>

\* The tab submits the login form and the server answers; a 2xx answer
\* passes the response interceptor and login runs to its end.  (What the
\* interceptor does with other answers is followed in Spec.)
PostLogin(b) ==
  LET h == ClientHeader(lsToken)
      out == loginRoute(b, users, jwtSecret, now)
      s == IF IsSuccess(out.res) THEN loginSettled(State, TRUE, AsAxios(out.res)) ELSE State
  IN /\ Serve("login", h, b, Unguarded, out.res)
     /\ cookie' = CookieAfter(cookie, out.res)
     /\ users' = out.users
     /\ Commit(s, calls)
     /\ UNCHANGED <<regs, open, nav, lastAuth>>

\* GET /api/auth/me with the header h
GetMe(h) ==
  LET out == getCurrentUserRoute(h, users, jwtSecret, now)
  IN /\ Serve("me", h, NoBody, verifyJWT(h, jwtSecret, now), out.res)
     /\ cookie' = CookieAfter(cookie, out.res)
     /\ users' = out.users
     /\ UNCHANGED regs
     /\ UNCHANGED clientVars

\* The tab submits the password form; updatePassword of the provider keeps
\* no state.
PatchUpdatePassword(b) ==
  LET h == ClientHeader(lsToken)
      out == updatePasswordRoute(h, b, users, jwtSecret, now)
  IN /\ Serve("update-password", h, b, verifyJWT(h, jwtSecret, now), out.res)
     /\ cookie' = CookieAfter(cookie, out.res)
     /\ users' = out.users
     /\ UNCHANGED regs
     /\ UNCHANGED clientVars

\* The tab submits the email form and the server answers; a 2xx answer
\* passes the response interceptor and updateEmail runs to its end.
PatchUpdateEmail(b) ==
  LET h == ClientHeader(lsToken)
      out == updateEmailRoute(h, b, users, jwtSecret, now)
      s == updateEmailSettled(State, IsSuccess(out.res), AsAxios(out.res))
  IN /\ Serve("update-email", h, b, verifyJWT(h, jwtSecret, now), out.res)
     /\ cookie' = CookieAfter(cookie, out.res)
     /\ users' = out.users
     /\ Commit(s, calls)
     /\ UNCHANGED <<regs, open, nav, lastAuth>>

AccountNext ==
  \/ \E k \in RegSlots : \E b \in RegisterBodies : RegisterStart(k, b)
  \/ \E k \in RegSlots : RegisterCommit(k)
  \/ \E k \in RegSlots : \E f \in RegisterForms : ClientRegister(k, f)
  \/ \E b \in LoginBodies : PostLogin(b)
  \/ \E h \in MeHeaders : GetMe(h)
  \/ \E b \in UpdatePasswordBodies : PatchUpdatePassword(b)
  \/ \E b \in UpdateEmailBodies : PatchUpdateEmail(b)

\* ------------------------------------------------------------------------
\* Actions of the browser
\* ------------------------------------------------------------------------
Init ==
  /\ lsToken \in {NoToken, "jwtA"}
  /\ open = FALSE
  /\ nav = FALSE
  /\ user = NoUser
  /\ token = NoToken
  /\ loading = FALSE
  /\ error = NoError
  /\ calls = [i \in Slots |-> NoCall]
  /\ lastAuth = NoToken
  /\ ServerIdle

\* The page (re)loads: AuthProvider mounts, its state is read from
\* localStorage and the token effect runs.  The requests of the page that
\* was left are gone with it.
Load ==
  /\ ~open \/ nav
  /\ open' = TRUE
  /\ nav' = FALSE
  /\ LET s == [user |-> NoUser, token |-> lsToken, loading |-> lsToken # NoToken,
               error |-> NoError, ls |-> lsToken]
     IN /\ Commit(AfterEffect(NoToken, s),
                  WithEffectCall(NoToken, s, [i \in Slots |-> NoCall]))
        /\ lastAuth' = EffectAuth(NoToken, s, lastAuth)
  /\ UNCHANGED serverVars

\* The login form is submitted (Login page: the form is shown when not
\* loading and no token is held).
Login ==
  /\ open /\ ~nav
  /\ ~loading /\ token = NoToken
  /\ Busy(calls) # Slots
  /\ Commit([State EXCEPT !.loading = TRUE, !.error = NoError],
            AddCall(calls, Call("login", NoToken, LoginUrl)))
  /\ lastAuth' = requestInterceptor(NoToken, lsToken)
  /\ UNCHANGED <<open, nav>>
  /\ UNCHANGED serverVars

\* The Logout button of the header is clicked (shown while user is set).
Logout ==
  /\ open /\ ~nav
  /\ user # NoUser
  /\ Busy(calls) # Slots
  /\ Commit([State EXCEPT !.loading = TRUE, !.error = NoError],
            AddCall(calls, Call("logout", NoToken, LogoutUrl)))
  /\ lastAuth' = requestInterceptor(NoToken, lsToken)
  /\ UNCHANGED <<open, nav>>
  /\ UNCHANGED serverVars

\* The answer resp to the request on the network of the call in slot i arrives: the
\* response interceptor runs, and when it settles the original promise the
\* operation that awaited it runs to its end, followed by the render and
\* the token effect.
Receive(i, resp) ==
  /\ open /\ ~nav
  /\ i \in Busy(calls)
  /\ UNCHANGED serverVars
  /\ LET c == calls[i] IN
     /\ resp \in Responses(Top(c).url)
     /\ ShouldRefresh(resp, Top(c)) => Len(c.reqs) < MaxDepth
     /\ LET out == responseInterceptor(c, resp, lsToken) IN
        IF out.kind = "pending" THEN
          /\ calls' = [calls EXCEPT ![i] = out.call]
          /\ lsToken' = out.ls
          /\ lastAuth' = out.auth
          /\ UNCHANGED <<open, nav, user, token, loading, error>>
        ELSE
          LET s == Settled(c.op, [State EXCEPT !.ls = out.ls],
                           out.kind = "resolved", resp)
          IN /\ Commit(AfterEffect(token, s),
                       WithEffectCall(token, s, [calls EXCEPT ![i] = NoCall]))
             /\ lastAuth' = EffectAuth(token, s, lastAuth)
             /\ nav' = out.nav
             /\ UNCHANGED open

\* Another tab of the same origin writes the token slot: its login or its
\* silent refresh stores a token, its logout or its failed refresh removes
\* it.  Nothing in this tab listens to the change.
OtherTab(v) ==
  /\ v \in Tokens \cup {NoToken}
  /\ v # lsToken
  /\ lsToken' = v
  /\ UNCHANGED <<open, nav, user, token, loading, error, calls, lastAuth>>
  /\ UNCHANGED serverVars

AllResponses ==
  ErrorResponses \cup UNION {SuccessResponses(u) : u \in {MeUrl, LoginUrl, LogoutUrl, RefreshUrl}}

Next ==
  \/ Load
  \/ Login
  \/ Logout
  \/ \E i \in Slots : \E resp \in AllResponses : Receive(i, resp)
  \/ \E v \in Tokens \cup {NoToken} : OtherTab(v)

vars == <<clientVars, serverVars>>

\* the browser against an arbitrary server
Spec == Init /\ [][Next]_vars

\* an answer arrives
Respond == \E i \in Slots : \E resp \in AllResponses : Receive(i, resp)

\* Spec, where every request on the network is answered in the end and
\* every navigation the page started completes
FairSpec ==
  /\ Spec
  /\ WF_vars(Respond)
  /\ WF_vars(Load)

\* the handlers of the server against arbitrary requests
ServerSpec == ServerInit /\ [][ServerNext]_vars

\* the account routes over the users collection
AccountSpec == AccountInit /\ [][AccountNext]_vars

\* ------------------------------------------------------------------------
\* Properties
\* ------------------------------------------------------------------------

\* C1: while one request of the client is served, at most one
\* POST /auth/refresh is sent for it, whatever the server answers, also
\* when the answer to the refresh is itself a 401.
C1_AtMostOneRefreshPerRequest ==
  \A i \in Slots : calls[i].refreshes <= 1

\* C2: POST /refresh answers 401 when the cookie is absent and 403, never
\* 401, when the cookie is there but its token is malformed, wrongly signed
\* or expired; no access token is issued in either case.
C2_RefreshFailureStatus ==
  (srvReq.route = "refresh" /\ jwtSecret # "") =>
    /\ srvReq.cookie = NoJwt => (srvRes.status = 401 /\ srvRes.token = NoJwt)
    /\ (srvReq.cookie # NoJwt /\ ~jwtVerify(srvReq.cookie, jwtSecret, srvReq.at).ok)
         => (srvRes.status = 403 /\ srvRes.token = NoJwt)

\* C3: at any time at most one POST /auth/refresh of the client is on the
\* network.
C3_OneRefreshInFlight ==
  Cardinality({i \in Busy(calls) : Top(calls[i]).url = RefreshUrl}) <= 1

\* C4: a request is sent again only when the refresh made for it succeeded,
\* only once, and with the token the refresh returned; a 401 answered to a
\* request that was already retried starts no refresh and reaches the caller
\* as a failure.
C4_RetryOnlyAfterRefresh ==
  [][\A i \in Busy(calls) : \A resp \in Responses(Top(calls[i]).url) :
       LET c == calls[i]
           n == Len(c.reqs)
           d == calls'[i]
           Resent == d.op = c.op /\ n >= 2 /\ Len(d.reqs) = n - 1
       IN /\ (Resent /\ Receive(i, resp)) =>
               /\ c.reqs[n].url = RefreshUrl /\ IsSuccess(resp)
               /\ ~c.reqs[n - 1].retry /\ d.reqs[n - 1].retry
               /\ d.reqs[n - 1].url = c.reqs[n - 1].url
               /\ lastAuth' = resp.token /\ lsToken' = resp.token
          /\ (c.reqs[n].retry /\ resp.status = 401 /\ Receive(i, resp)) =>
               /\ d = NoCall
               /\ error' = ErrorMessage(resp)
               /\ \A j \in Slots : calls'[j].refreshes <= calls[j].refreshes
    ]_vars

\* C4 witness: a request other than a refresh was answered 401, the refresh
\* made for it 200, and it is on the network again, marked as retried, with
\* the token the refresh stored.
C4_Witness ==
  \E i \in Slots : /\ calls[i].op # "none"
                   /\ Len(calls[i].reqs) = 1 /\ calls[i].reqs[1].retry
                   /\ calls[i].log = <<401, 200>>
                   /\ lastAuth = lsToken /\ lsToken # NoToken

\* C5: GET /me answered 401, the refresh answered 200 and the retried
\* GET /me answered 200: the provider holds the identity and a token,
\* loading is false, and one refresh was sent.
C5_HydrationThroughRefresh ==
  [][\A i \in Slots : \A resp \in SuccessResponses(MeUrl) :
       ( /\ calls[i].op = "getCurrentUser"
         /\ calls[i].forToken = token
         /\ calls[i].log = <<401, 200>>
         /\ Receive(i, resp) )
       => /\ token' # NoToken
          /\ user' = transformUser(resp.user) /\ user' # NoUser
          /\ ~loading'
          /\ calls[i].refreshes = 1
          /\ calls'[i] = NoCall
    ]_vars

\* C5 witness: the provider hydrates for the token it holds; GET /me was
\* answered 401, the one refresh 200, and the retried GET /me is on the
\* network with the token the refresh stored.
C5_Witness ==
  \E i \in Slots : /\ calls[i].op = "getCurrentUser"
                   /\ calls[i].forToken = token /\ loading
                   /\ calls[i].log = <<401, 200>> /\ calls[i].refreshes = 1
                   /\ calls[i].reqs = <<[url |-> MeUrl, retry |-> TRUE]>>
                   /\ lastAuth = lsToken /\ lsToken # NoToken

\* C6: when the identity fetch made for the held token fails (GET /me fails,
\* the silent refresh fails, or the retried GET /me fails) the provider ends
\* anonymous and the token slot is empty.
C6_FailedHydrationClearsSlot ==
  [][\A i \in Slots : \A resp \in AllResponses :
       ( /\ calls[i].op = "getCurrentUser"
         /\ calls[i].forToken = token
         /\ Receive(i, resp)
         /\ ~IsSuccess(resp) /\ calls'[i] = NoCall )
       => /\ token' = NoToken /\ user' = NoUser /\ ~loading'
          /\ lsToken' = NoToken
    ]_vars

\* C7: once the token slot is empty, this tab ends up without token and
\* without identity.
C7_CrossTabLogout ==
  (lsToken = NoToken) ~> (token = NoToken /\ user = NoUser)

\* C8: the answer to a GET /me that was issued for a token the provider no
\* longer holds leaves the token and the identity of the provider as they
\* are.
C8_StaleFetchIgnored ==
  [][\A i \in Slots : \A resp \in AllResponses :
       ( /\ calls[i].op = "getCurrentUser"
         /\ calls[i].forToken # token /\ token # NoToken
         /\ Receive(i, resp) )
       => /\ token' = token
          /\ user' = user
    ]_vars

\* C9: logout empties the token, the identity and the token slot at once,
\* before the server is called.
C9_LogoutClearsFirst ==
  [][Logout => (token' = NoToken /\ user' = NoUser /\ lsToken' = NoToken)]_vars

\* C10: POST /logout answers 204 and clears the refresh cookie whatever the
\* Authorization header of the request.
C10_LogoutAlwaysSucceeds ==
  srvReq.route = "logout" => (srvRes.status = 204 /\ srvRes.cookieOp = "clear")

\* C11: the users collection never holds two documents whose emails differ
\* only in letter case (so of two registrations with case variants of one
\* address at most one succeeds).
C11_OneRecordPerMailbox ==
  \A u, v \in users : toLowerCase(u.email) = toLowerCase(v.email) => u = v

C13_LoginByNormalizedEmail ==
  (srvReq.route = "login" /\ jwtSecret # "") =>
    \A u \in users :
      ( /\ {v \in users : toLowerCase(v.email) = toLowerCase(u.email)} = {u}
        /\ toLowerCase(srvReq.body.email) = toLowerCase(u.email)
        /\ comparePassword(srvReq.body.password, u.password) )
      => (srvRes.status = 200 /\ srvRes.token.userId = u._id)

\* C14: a login that passes field validation and names an unregistered
\* address, or a registered address with a wrong password, is answered by
\* one and the same response: 401 { message: "Invalid email or password" },
\* no token, no cookie.
C14_LoginFailuresIndistinguishable ==
  (srvReq.route = "login" /\ validateLogin(srvReq.body)) =>
    LET found == findOne(users, srvReq.body.email)
    IN (found = {} \/ \E u \in found : ~comparePassword(srvReq.body.password, u.password))
       => srvRes = [status |-> 401, message |-> "Invalid email or password",
                    token |-> NoJwt, cookieOp |-> "keep", setCookie |-> NoJwt,
                    shape |-> "json", user |-> NoBackendUser]

\* a registered address with a wrong password
C14_Witness ==
  /\ srvReq.route = "login"
  /\ \E u \in findOne(users, srvReq.body.email) :
       ~comparePassword(srvReq.body.password, u.password)
  /\ srvReq.body.password # ""
  /\ srvRes.status = 401

\* C15: a successful update-email has stored the new email under the
\* unchanged id, answers with an access and a refresh token that carry this
\* id and the stored email, sets the refresh cookie to the new refresh
\* token, and leaves the tab with the new access token in localStorage and
\* in state.
C15_UpdateEmailRotatesTokens ==
  [][\A b \in UpdateEmailBodies :
       (PatchUpdateEmail(b) /\ srvRes'.status = 200) =>
         LET id == srvReq'.user.userId
         IN /\ \E u \in users : u._id = id /\ u.email # b.newEmail
            /\ \E u \in users' : u._id = id /\ u.email = b.newEmail
            /\ Cardinality(findById(users', id)) = 1
            /\ srvRes'.token = Jwt(id, b.newEmail, now, now + AccessTTL, jwtSecret)
            /\ srvRes'.cookieOp = "set"
            /\ srvRes'.setCookie = Jwt(id, b.newEmail, now, now + RefreshTTL, jwtSecret)
            /\ cookie' = srvRes'.setCookie
            /\ lsToken' = Encode(srvRes'.token)
            /\ token' = lsToken'
            /\ Decode(lsToken').email = b.newEmail
            /\ user'.email = b.newEmail
    ]_vars

\* the tab holds the token the update answered with, which names the other
\* address than the token the request was sent with
C15_Witness ==
  /\ srvReq.route = "update-email"
  /\ srvRes.status = 200
  /\ lsToken = Encode(srvRes.token)
  /\ srvReq.auth.token.email # srvRes.token.email
  /\ cookie = srvRes.setCookie

\* C16: GET /me behind a passed guard answers from the document stored
\* under the id of the token: 404 when there is none, otherwise 200 with
\* the email of the document, whatever email the token carries.
C16_MeReadsTheStore ==
  (srvReq.route = "me" /\ srvReq.next) =>
    LET found == findById(users, srvReq.user.userId)
    IN /\ found = {} => (srvRes.status = 404 /\ srvRes.user = NoBackendUser)
       /\ \A u \in found :
            /\ srvRes.status = 200
            /\ srvRes.user._id = u._id
            /\ srvRes.user.name = u.name
            /\ srvRes.user.email = u.email

\* a valid token with an email that is no longer the stored one
C16_Witness ==
  /\ srvReq.route = "me"
  /\ srvReq.next
  /\ srvRes.status = 200
  /\ srvReq.user.email # srvRes.user.email
  /\ \E u \in users : u._id = srvReq.user.userId /\ u.email = srvRes.user.email

C19_TokenLifetime ==
  /\ \A c \in Claims : \A k \in 1..Len(Instants) :
       (Instants[k] <= now /\ jwtSecret # "") =>
         LET t == Instants[k]
             pair == generateTokens(c.userId, c.email, jwtSecret, t)
             access == jwtVerify(pair.token, jwtSecret, now)
             refresh == jwtVerify(pair.refreshToken, jwtSecret, now)
         IN /\ access.ok <=> now < t + AccessTTL
            /\ refresh.ok <=> now < t + RefreshTTL
            /\ access.ok => access.payload = c
            /\ refresh.ok => refresh.payload = c
  /\ \A c \in Claims :
       LET pair == generateTokens(c.userId, c.email, Secret, 0)
       IN /\ (srvReq.route = "logout" /\ jwtSecret = Secret
                /\ srvReq.auth = Bearer(pair.token))
             => (srvRes.status = 204 <=> srvReq.at < AccessTTL)
          /\ (srvReq.route = "refresh" /\ jwtSecret = Secret
                /\ srvReq.cookie = pair.refreshToken)
             => (srvRes.status = 200 <=> srvReq.at < RefreshTTL)

\* an access token is refused in the second its 15 minutes are over
C19_Witness ==
  /\ srvReq.route = "logout"
  /\ jwtSecret = Secret
  /\ srvReq.at = AccessTTL
  /\ srvReq.auth = Bearer(generateTokens("u1", "ann@x.com", Secret, 0).token)
  /\ srvRes.status = 401

\* C20: behind verifyJWT the handler runs, with req.user set to the claims
\* of the token, exactly when the header is "Bearer <token>", the secret is
\* set and the token verifies with both claims; otherwise the guard sends
\* one response (500 when the header carries a token and the secret is not
\* set, else 401) and the handler does not run.
C20_GuardDecides ==
  srvReq.route = "logout" =>
    LET h == srvReq.auth
        good == /\ h.scheme = "Bearer"
                /\ h.token # NoJwt
                /\ jwtSecret # ""
                /\ h.token.wellFormed /\ h.token.key = jwtSecret
                /\ srvReq.at < h.token.exp
                /\ h.token.userId # Absent /\ h.token.email # Absent
    IN /\ srvReq.next <=> good
       /\ good => /\ srvReq.sent = 0
                  /\ srvReq.user = [userId |-> h.token.userId, email |-> h.token.email]
                  /\ srvRes.status = 204
       /\ ~good => /\ srvReq.sent = 1
                   /\ srvReq.user = NoClaims
                   /\ srvRes.cookieOp = "keep"
                   /\ srvRes.status =
                        IF h.scheme = "Bearer" /\ h.token # NoJwt /\ jwtSecret = ""
                          THEN 500 ELSE 401

\* a token without the email claim is stopped by the guard
C20_Witness ==
  /\ srvReq.route = "logout"
  /\ srvReq.auth.scheme = "Bearer"
  /\ srvReq.auth.token.wellFormed
  /\ srvReq.auth.token.key = jwtSecret
  /\ srvReq.at < srvReq.auth.token.exp
  /\ srvReq.auth.token.email = Absent
  /\ ~srvReq.next
  /\ srvRes.status = 401

\* C21: without JWT_SECRET every request that has to sign or verify a token
\* is answered with a status of the 500 class and without a token: a refresh
\* that carries a cookie, a guarded route whose header carries a token, a
\* register whose document is created and a login with the right password.
C21_MissingSecretIs500 ==
  jwtSecret = "" =>
    LET failed == srvRes.status >= 500 /\ srvRes.token = NoJwt
                  /\ srvRes.cookieOp # "set"
    IN /\ (srvReq.route = "refresh" /\ srvReq.cookie # NoJwt) => failed
       /\ ( /\ srvReq.route \in {"logout", "me", "update-password", "update-email"}
            /\ srvReq.auth.scheme = "Bearer"
            /\ srvReq.auth.token # NoJwt ) => failed
       /\ ( /\ srvReq.route = "register"
            /\ validateRegister(srvReq.body.body)
            /\ srvRes.status # 409 ) => failed
       /\ ( /\ srvReq.route = "login"
            /\ \E u \in findOne(users, srvReq.body.email) :
                 comparePassword(srvReq.body.password, u.password) ) => failed

\* C22: every step leaves only bcrypt hashes of submitted passwords in the
\* password field, never a plaintext.  The document a successful register
\* adds verifies the password1 of the request; after a successful
\* update-password the document of the caller verifies newPassword; an
\* update-email, successful or not, leaves every stored password as it was
\* (so the password of the request still verifies); login and GET /me write
\* nothing.
C22_StoredPasswordIsHashed ==
  [][/\ \A v \in users' :
          /\ v.password \notin StrongPasswords \cup {WeakPassword, ""}
          /\ \E p \in StrongPasswords : comparePassword(p, v.password)
     /\ \A k \in RegSlots :
          (k \in Pending(regs) /\ RegisterCommit(k) /\ srvRes'.status = 201) =>
            \E v \in users' \ users :
              /\ users' = users \cup {v}
              /\ v.password = bcryptHash(regs[k].body.password1)
              /\ comparePassword(regs[k].body.password1, v.password)
     /\ \A b \in UpdatePasswordBodies :
          (PatchUpdatePassword(b) /\ srvRes'.status = 200) =>
            \E v \in findById(users', srvReq'.user.userId) :
              /\ v.password = bcryptHash(b.newPassword)
              /\ comparePassword(b.newPassword, v.password)
              /\ \A u \in users : u._id # v._id => u \in users'
     /\ \A b \in UpdateEmailBodies :
          PatchUpdateEmail(b) =>
            /\ \A u \in users : \E v \in users' :
                 v._id = u._id /\ v.password = u.password
            /\ srvRes'.status = 200 =>
                 \E v \in findById(users', srvReq'.user.userId) :
                   comparePassword(b.password, v.password)
     /\ \A b \in LoginBodies : PostLogin(b) => users' = users
     /\ \A h \in MeHeaders : GetMe(h) => users' = users
    ]_vars

\* an update-email has succeeded and the password it was sent with still
\* verifies against the stored hash
C22_Witness ==
  /\ srvReq.route = "update-email"
  /\ srvRes.status = 200
  /\ \E u \in findById(users, srvReq.user.userId) :
       /\ u.email = srvReq.body.newEmail
       /\ comparePassword(srvReq.body.password, u.password)
       /\ u.password # srvReq.body.password

\* C23 as stated: the user object of every response body of register,
\* login, GET /me and update-email has no other fields than _id, name,
\* email, isVerified, createdAt and updatedAt, and no token carries a hash.
C23_OnlySixFields ==
  LET Hashes == {u.password : u \in users} \cup {bcryptHash(p) : p \in StrongPasswords}
      \* the token says nothing but the id and the email of a user (and the
      \* iat and exp that jsonwebtoken adds), and neither is a password hash
      TokenIsClean(tok) ==
        tok # NoJwt =>
          /\ DOMAIN tok \ {"iat", "exp", "key", "wellFormed"} = {"userId", "email"}
          /\ tok.userId \notin Hashes
          /\ tok.email \notin Hashes
  IN
  /\ (srvReq.route \in {"register", "login", "me", "update-email"}
       /\ srvRes.user # NoBackendUser)
     => DOMAIN srvRes.user \subseteq
          {"_id", "name", "email", "isVerified", "createdAt", "updatedAt"}
  /\ TokenIsClean(srvRes.token)
  /\ TokenIsClean(srvRes.setCookie)
  /\ TokenIsClean(cookie)

\* C23, amended: no response body and no token carries the stored password:
\* the user object of register, login and update-email has exactly the
\* fields _id, name, email, isVerified, createdAt and updatedAt, that of
\* GET /me these and the version key __v of the document; none of the
\* strings of a response or a token is a password hash, and what the tab
\* keeps of a response is free of it too.
C23_NoPasswordInResponses ==
  LET Hashes == {u.password : u \in users} \cup {bcryptHash(p) : p \in StrongPasswords}
      \* the token says nothing but the id and the email of a user (and the
      \* iat and exp that jsonwebtoken adds), and neither is a password hash
      TokenIsClean(tok) ==
        tok # NoJwt =>
          /\ DOMAIN tok \ {"iat", "exp", "key", "wellFormed"} = {"userId", "email"}
          /\ tok.userId \notin Hashes
          /\ tok.email \notin Hashes
  IN
  /\ (srvReq.route \in {"register", "login", "update-email"}
       /\ srvRes.user # NoBackendUser)
     => DOMAIN srvRes.user =
          {"_id", "name", "email", "isVerified", "createdAt", "updatedAt"}
  /\ (srvReq.route = "me" /\ srvRes.user # NoBackendUser)
     => DOMAIN srvRes.user =
          {"_id", "name", "email", "isVerified", "createdAt", "updatedAt", "__v"}
  /\ "password" \notin DOMAIN srvRes.user
  /\ {srvRes.user._id, srvRes.user.name, srvRes.user.email, srvRes.message}
       \cap Hashes = {}
  /\ TokenIsClean(srvRes.token)
  /\ TokenIsClean(srvRes.setCookie)
  /\ TokenIsClean(cookie)
  /\ {user.id, user.name, user.email, lsToken, token, error} \cap Hashes = {}

\* GET /me has answered with the document of a user whose hash is stored
C23_Witness ==
  LET Hashes == {u.password : u \in users} \cup {bcryptHash(p) : p \in StrongPasswords}
      \* the token says nothing but the id and the email of a user (and the
      \* iat and exp that jsonwebtoken adds), and neither is a password hash
      TokenIsClean(tok) ==
        tok # NoJwt =>
          /\ DOMAIN tok \ {"iat", "exp", "key", "wellFormed"} = {"userId", "email"}
          /\ tok.userId \notin Hashes
          /\ tok.email \notin Hashes
  IN
  /\ srvReq.route = "me"
  /\ srvRes.status = 200
  /\ "__v" \in DOMAIN srvRes.user
  /\ \E u \in users : u._id = srvRes.user._id /\ u.password \in Hashes

\* C24: on a loaded page ProtectedRoute renders its children exactly when
\* a token is held and loading is false; while loading is true it renders
\* the loading text and does not navigate; it navigates to /login exactly
\* when loading is false and no token is held.  While the getCurrentUser of
\* the token the provider holds is in flight it does not navigate.
C24_RouteGuard ==
  (open /\ ~nav) =>
    LET view == ProtectedRoute(loading, token)
    IN /\ view.renders = "children" <=> (token # NoToken /\ ~loading)
       /\ loading => (view.renders = "Loading..." /\ ~view.navigates)
       /\ view.navigates <=> (~loading /\ token = NoToken)
       /\ view.navigates => view.renders = "null"
       /\ (\E i \in Slots : /\ calls[i].op = "getCurrentUser"
                            /\ calls[i].forToken = token)
          => ~view.navigates

\* the page has loaded with a stored token, getCurrentUser is in flight and
\* the guard shows the loading text
C24_Witness ==
  /\ open /\ ~nav
  /\ loading /\ token # NoToken /\ user = NoUser
  /\ \E i \in Slots : calls[i].op = "getCurrentUser" /\ calls[i].forToken = token
  /\ ProtectedRoute(loading, token).renders = "Loading..."
  /\ ~ProtectedRoute(loading, token).navigates

\* C25: whenever the provider holds a user it holds a token (so after a
\* logout has settled the user stays null until a login succeeds, whatever
\* answers arrive to requests sent before it).
C25_UserImpliesToken ==
  (open /\ ~nav) => (user # NoUser => token # NoToken)

\* C26: on a loaded page with no request of the tab in flight, the token of
\* the provider is the token of localStorage.
C26_StateTokenIsStoredToken ==
  (open /\ ~nav /\ Busy(calls) = {}) => token = lsToken

\* C27: a token signed as access token (exp = iat + 15 min) is never
\* accepted by POST /refresh, and a token signed as refresh token
\* (exp = iat + 7 d) never passes verifyJWT.
C27_TokensNotInterchangeable ==
  /\ ( /\ srvReq.route = "refresh"
       /\ srvReq.cookie.wellFormed
       /\ srvReq.cookie.exp - srvReq.cookie.iat = AccessTTL )
     => (srvRes.status # 200 /\ srvRes.token = NoJwt)
  /\ ( /\ srvReq.route = "logout"
       /\ srvReq.auth.token.wellFormed
       /\ srvReq.auth.token.exp - srvReq.auth.token.iat = RefreshTTL )
     => (~srvReq.next /\ srvRes.status # 204)

\* C28: a register and an update-email that are answered with an error
\* status leave the users collection as it was.
C28_ErrorLeavesStoreUnchanged ==
  [][/\ \A k \in RegSlots :
          (k \in Pending(regs) /\ RegisterCommit(k) /\ srvRes'.status >= 300)
            => users' = users
     /\ \A k \in RegSlots : \A b \in RegisterBodies :
          RegisterStart(k, b) => users' = users
     /\ \A b \in UpdateEmailBodies :
          (PatchUpdateEmail(b) /\ srvRes'.status >= 300) => users' = users
    ]_vars

\* C29: when the first answer to the POST /auth/login of a login is 401,
\* the login ends there: no other request goes out for it, localStorage,
\* token and user are as before, error is set and loading is false.
C29_RejectedLoginChangesNothing ==
  [][\A i \in Slots : \A resp \in AllResponses :
       ( /\ calls[i].op = "login"
         /\ calls[i].log = << >>
         /\ resp.status = 401
         /\ Receive(i, resp) )
       => /\ calls'[i] = NoCall
          /\ lsToken' = lsToken
          /\ token' = token
          /\ user' = user
          /\ error' # NoError
          /\ ~loading'
          /\ ~nav'
    ]_vars

\* C30: a Register form with a name, a free address and a strong password
\* typed twice is not refused: the body register posts carries the four
\* fields registerUser reads, and the request reaches User.create.
C30_ClientRegisterAccepted ==
  [][\A k \in RegSlots : \A f \in RegisterForms :
       ( /\ Len(f.name) >= 2
         /\ isEmail(f.email) /\ findOne(users, f.email) = {}
         /\ isStrongPassword(f.password)
         /\ ClientRegister(k, f) )
       => /\ {"name", "email", "password1", "password2"}
               \subseteq DOMAIN registerBody(f.name, f.email, f.password)
          /\ regs'[k] # NoReg
          /\ srvRes' = srvRes
          /\ error' = NoError
    ]_vars

====
